---- MODULE Spec2Model ----
(***************************************************************************)
(* Greedy CTC decoder (decode_logits) and Word Error Rate accumulator      *)
(* (MetricWER) of notebooks/107-speech-recognition-quantization.           *)
(*                                                                         *)
(* A Python str is modelled as a sequence of one-character strings, so     *)
(* that join, strip, split and lower are computed rather than assumed.     *)
(* A logits array is modelled by what np.argmax(logits, -1) returns: the   *)
(* shape of that result (dims) and its entries in row-major order (ids).   *)
(* A Python float is modelled as a reduced fraction <<num, den>>; the      *)
(* floats numpy produces on a division by zero are Inf and NaN.            *)
(***************************************************************************)
EXTENDS Integers, Sequences, FiniteSets, TLC

VARIABLES _sum_score, _sum_words, _cur_score, call,
          logits, decoded,
          source, target, distance,
          samples, pending,
          run,
          threads, lock

vars == <<_sum_score, _sum_words, _cur_score, call,
          logits, decoded, source, target, distance,
          samples, pending, run, threads, lock>>

accVars == <<_sum_score, _sum_words, _cur_score, call>>
decVars == <<logits, decoded>>
edVars == <<source, target, distance>>
foldVars == <<samples, pending>>
concVars == <<threads, lock>>

(***************************************************************************)
(* Bounds of the model.                                                    *)
(***************************************************************************)
\* longest argmax sequence given to the decoder
MaxT == 5
\* longest token sequence given to the edit distance
MaxLen == 3
\* largest number of pairs in one update call
MaxBatch == 2
\* update is not taken once a cumulative counter would pass this cap
MaxSum == 5
\* samples in a collection or a dataset
MaxSamples == 3
\* evaluation runs in a row
MaxRuns == 2

(***************************************************************************)
(* MetricWER class attributes.                                             *)
(***************************************************************************)
alphabet ==
  << <<"<", "p", "a", "d", ">">>, <<"<", "s", ">">>, <<"<", "/", "s", ">">>,
     <<"<", "u", "n", "k", ">">>, <<"|">>,
     <<"e">>, <<"t">>, <<"a">>, <<"o">>, <<"n">>, <<"i">>, <<"h">>, <<"s">>,
     <<"r">>, <<"d">>, <<"l">>, <<"u">>,
     <<"m">>, <<"w">>, <<"c">>, <<"f">>, <<"g">>, <<"y">>, <<"p">>, <<"b">>,
     <<"v">>, <<"k">>, <<"'">>, <<"x">>, <<"j">>, <<"q">>, <<"z">> >>

words_delimiter == <<"|">>

pad_token == <<"<", "p", "a", "d", ">">>

\* dict(enumerate(alphabet)): Python indices start at 0
decoding_vocab == [idx \in 0..(Len(alphabet) - 1) |-> alphabet[idx + 1]]

(***************************************************************************)
(* Python str methods, on sequences of characters.                         *)
(***************************************************************************)
UpperCase == <<"A", "B", "C", "D", "E", "F", "G", "H", "I", "J", "K", "L", "M",
               "N", "O", "P", "Q", "R", "S", "T", "U", "V", "W", "X", "Y", "Z">>

LowerCase == <<"a", "b", "c", "d", "e", "f", "g", "h", "i", "j", "k", "l", "m",
               "n", "o", "p", "q", "r", "s", "t", "u", "v", "w", "x", "y", "z">>

Range(f) == {f[x] : x \in DOMAIN f}

\* the only whitespace character of the modelled strings
IsSpace(c) == c = " "

LowerOf == [c \in Range(UpperCase) |->
              LowerCase[CHOOSE k \in 1..Len(UpperCase) : UpperCase[k] = c]]

lower_char(c) == IF c \in DOMAIN LowerOf THEN LowerOf[c] ELSE c

\* str.lower()
lower(s) == [k \in 1..Len(s) |-> lower_char(s[k])]

RECURSIVE lstrip(_)
lstrip(s) ==
  IF s # <<>> /\ IsSpace(Head(s)) THEN lstrip(Tail(s)) ELSE s

RECURSIVE rstrip(_)
rstrip(s) ==
  IF s # <<>> /\ IsSpace(s[Len(s)]) THEN rstrip(SubSeq(s, 1, Len(s) - 1)) ELSE s

\* str.strip()
strip(s) == rstrip(lstrip(s))

\* ''.join(parts)
RECURSIVE join_empty(_)
join_empty(parts) ==
  IF parts = <<>> THEN <<>> ELSE Head(parts) \o join_empty(Tail(parts))

\* sep.join(parts)
RECURSIVE join(_, _)
join(sep, parts) ==
  IF parts = <<>> THEN <<>>
  ELSE IF Len(parts) = 1 THEN Head(parts)
  ELSE Head(parts) \o sep \o join(sep, Tail(parts))

\* str.split(sep) for a one-character sep: every separator cuts, empty
\* pieces are kept, the result always has at least one piece
RECURSIVE split_sep(_, _, _)
split_sep(s, sep, piece) ==
  IF s = <<>> THEN <<piece>>
  ELSE IF Head(s) = sep THEN <<piece>> \o split_sep(Tail(s), sep, <<>>)
  ELSE split_sep(Tail(s), sep, Append(piece, Head(s)))

\* str.split(): cuts at runs of whitespace, no empty pieces
RECURSIVE split_ws(_, _)
split_ws(s, piece) ==
  IF s = <<>> THEN (IF piece = <<>> THEN <<>> ELSE <<piece>>)
  ELSE IF IsSpace(Head(s))
       THEN (IF piece = <<>> THEN <<>> ELSE <<piece>>) \o split_ws(Tail(s), <<>>)
  ELSE split_ws(Tail(s), Append(piece, Head(s)))

split(s) == split_ws(s, <<>>)

(***************************************************************************)
(* decode_logits                                                           *)
(***************************************************************************)
\* np.squeeze on a shape: every axis of length 1 is removed
squeeze(dims) == SelectSeq(dims, LAMBDA d : d # 1)

\* [token_group[0] for token_group in groupby(tokens)]
RECURSIVE groupby(_)
groupby(tokens) ==
  IF Len(tokens) <= 1 THEN tokens
  ELSE IF tokens[1] = tokens[2] THEN groupby(Tail(tokens))
  ELSE <<tokens[1]>> \o groupby(Tail(tokens))

\* lines 466-472, once token_ids is known to be a 1-D array
decode_tokens(token_ids) ==
  LET tokens1 == [k \in 1..Len(token_ids) |-> decoding_vocab[token_ids[k]]]
      tokens2 == groupby(tokens1)
      tokens3 == SelectSeq(tokens2, LAMBDA t : t # pad_token)
      joined  == join_empty([k \in 1..Len(tokens3) |->
                     IF tokens3[k] # words_delimiter THEN tokens3[k] ELSE <<" ">>])
      res1    == strip(joined)
      res2    == join(<<" ">>, split_sep(res1, " ", <<>>))
  IN  lower(res2)

\* The result of a call: err names the exception raised ("none": returned).
\* Iterating a 0-d array raises TypeError; iterating an array of two or more
\* dimensions yields arrays, which are unhashable as keys of decoding_vocab.
decode_logits(l) ==
  LET shape == squeeze(l.dims)
  IN  IF Len(shape) # 1
      THEN [err |-> "TypeError", res |-> <<>>]
      ELSE [err |-> "none", res |-> decode_tokens(l.ids)]

(***************************************************************************)
(* MetricWER                                                               *)
(***************************************************************************)
RECURSIVE gcd(_, _)
gcd(a, b) == IF b = 0 THEN a ELSE gcd(b, a % b)

\* the int 0 that __init__ and avg_value use, as a fraction
Zero == <<0, 1>>

\* float('inf') and float('nan'): no fraction has a zero denominator
Inf == <<1, 0>>

NaN == <<0, 0>>

\* a / b for a numpy integer a >= 0 and an int b >= 0 (true division). numpy
\* does not raise on a zero divisor: it warns and returns inf, or nan for 0 / 0.
true_divide(a, b) ==
  IF b = 0 THEN (IF a = 0 THEN NaN ELSE Inf)
  ELSE <<a \div gcd(a, b), b \div gcd(a, b)>>

Min3(a, b, c) ==
  IF a <= b /\ a <= c THEN a ELSE IF b <= c THEN b ELSE c

\* _editdistance_eval with the substitution cost never 0
_editdistance_eval_cost1(src, tgt) ==
  LET n == Len(src)
      m == Len(tgt)
      dist[i \in 0..n, j \in 0..m] ==
        IF i = 0 THEN j
        ELSE IF j = 0 THEN i
        ELSE Min3(dist[i - 1, j] + 1, dist[i, j - 1] + 1, dist[i - 1, j - 1] + 1)
  IN  dist[n, m]

\* _editdistance_eval with a deletion charged 2
_editdistance_eval_del2(src, tgt) ==
  LET n == Len(src)
      m == Len(tgt)
      dist[i \in 0..n, j \in 0..m] ==
        IF i = 0 THEN j
        ELSE IF j = 0 THEN i
        ELSE LET cost == IF src[i] = tgt[j] THEN 0 ELSE 1
             IN  Min3(dist[i - 1, j] + 2, dist[i, j - 1] + 1, dist[i - 1, j - 1] + cost)
  IN  dist[n, m]

\* lines 571-585: the table distance[0..n][0..m], filled row by row
_editdistance_eval(src, tgt) ==
  LET n == Len(src)
      m == Len(tgt)
      dist[i \in 0..n, j \in 0..m] ==
        IF i = 0 THEN j
        ELSE IF j = 0 THEN i
        ELSE LET cost == IF src[i] = tgt[j] THEN 0 ELSE 1
             IN  Min3(dist[i - 1, j] + 1, dist[i, j - 1] + 1, dist[i - 1, j - 1] + cost)
  IN  dist[n, m]

\* _get_metric_per_sample with _sum_words assigned instead of added to
_get_metric_per_sample_assign(self, annotation, prediction) ==
  LET cur_score == _editdistance_eval(split(annotation), split(prediction))
      cur_words == Len(split(annotation))
  IN  [self |-> [_sum_score |-> self._sum_score + cur_score,
                 _sum_words |-> cur_words,
                 _cur_score |-> true_divide(cur_score, cur_words)],
       result |-> IF cur_words # 0 THEN true_divide(cur_score, cur_words) ELSE Zero]

\* lines 560-569; self is the record of the three fields
_get_metric_per_sample(self, annotation, prediction) ==
  LET cur_score == _editdistance_eval(split(annotation), split(prediction))
      cur_words == Len(split(annotation))
  IN  [self |-> [_sum_score |-> self._sum_score + cur_score,
                 _sum_words |-> self._sum_words + cur_words,
                 _cur_score |-> true_divide(cur_score, cur_words)],
       result |-> IF cur_words # 0 THEN true_divide(cur_score, cur_words) ELSE Zero]

\* the loop of lines 541-542, from pair i on
RECURSIVE update_loop(_, _, _, _)
update_loop(self, dec, tgt, i) ==
  IF i > Len(dec) THEN self
  ELSE update_loop(_get_metric_per_sample(self, dec[i], tgt[i]).self, dec, tgt, i + 1)

\* update that scores the targets as given, without lower()
update_nolower(self, output, tgt) ==
  LET dec    == [k \in 1..Len(output) |-> decode_logits(output[k])]
      failed == {k \in 1..Len(output) : dec[k].err # "none"}
  IN  IF failed # {}
      THEN [self |-> self, err |-> dec[CHOOSE k \in failed : \A j \in failed : k <= j].err]
      ELSE IF Len(output) # Len(tgt)
      THEN [self |-> self, err |-> "AssertionError"]
      ELSE [self |-> update_loop(self, [k \in 1..Len(dec) |-> dec[k].res], tgt, 1),
            err |-> "none"]

\* lines 531-542: output is a sequence of logits, tgt a sequence of strings
update(self, output, tgt) ==
  LET dec    == [k \in 1..Len(output) |-> decode_logits(output[k])]
      failed == {k \in 1..Len(output) : dec[k].err # "none"}
      low    == [k \in 1..Len(tgt) |-> lower(tgt[k])]
  IN  IF failed # {}
      THEN [self |-> self, err |-> dec[CHOOSE k \in failed : \A j \in failed : k <= j].err]
      ELSE IF Len(output) # Len(tgt)
      THEN [self |-> self, err |-> "AssertionError"]
      ELSE [self |-> update_loop(self, [k \in 1..Len(dec) |-> dec[k].res], low, 1),
            err |-> "none"]

\* reset that also clears the current value
reset_all(self) == [self EXCEPT !._sum_score = 0, !._sum_words = 0, !._cur_score = Zero]

\* lines 544-549
reset(self) == [self EXCEPT !._sum_score = 0, !._sum_words = 0]

\* avg_value without the test for a zero word count
avg_value_unguarded(self) == true_divide(self._sum_score, self._sum_words)

\* lines 526-529, the number under the key "WER"
avg_value(self) ==
  IF self._sum_words # 0 THEN true_divide(self._sum_score, self._sum_words) ELSE Zero

\* lines 521-524, the number under the key "WER"
value(self) == self._cur_score

\* the accumulator object
Self == [_sum_score |-> _sum_score, _sum_words |-> _sum_words, _cur_score |-> _cur_score]

\* __init__, lines 514-519
NewMetric == [_sum_score |-> 0, _sum_words |-> 0, _cur_score |-> Zero]

(***************************************************************************)
(* Inputs                                                                  *)
(***************************************************************************)
RECURSIVE SeqsUpTo(_, _)
SeqsUpTo(S, n) ==
  IF n = 0 THEN {<<>>}
  ELSE LET shorter == SeqsUpTo(S, n - 1)
       IN  shorter \cup {Append(s, x) : s \in {q \in shorter : Len(q) = n - 1}, x \in S}

\* a (timesteps x alphabet size) logits matrix whose row-wise argmax is ids
Logits2D(ids) == [dims |-> <<Len(ids)>>, ids |-> ids]

\* the (1 x timesteps x alphabet size) array the inference call returns
Logits3D(ids) == [dims |-> <<1, Len(ids)>>, ids |-> ids]

\* model outputs given to update: padding only (decodes to ""), a single
\* timestep, and pad e e (decodes to "e")
OutputSamples == { Logits2D(<<0, 0>>), Logits2D(<<5>>), Logits2D(<<0, 5, 5>>) }

\* transcripts given to update: "", "E" and "E T"
TargetSamples == { <<>>, <<"E">>, <<"E", " ", "T">> }

Outputs == SeqsUpTo(OutputSamples, MaxBatch)

Targets == SeqsUpTo(TargetSamples, MaxBatch)

(***************************************************************************)
(* The accumulator under update and reset calls.  call describes the last  *)
(* call: the method, the exception it raised ("none": it returned) and,    *)
(* for an observed call, its arguments <<output, target>>.  Only the last  *)
(* call of a behaviour is observed (CallSpec); Spec observes none.         *)
(***************************************************************************)
Idle ==
  /\ logits = Logits2D(<<>>) /\ decoded = [err |-> "pending", res |-> <<>>]
  /\ source = <<>> /\ target = <<>> /\ distance = -1

Fresh ==
  /\ _sum_score = NewMetric._sum_score
  /\ _sum_words = NewMetric._sum_words
  /\ _cur_score = NewMetric._cur_score
  /\ call = [op |-> "init", err |-> "none", args |-> <<>>]

\* no collection of samples is being folded
NoFold == samples = <<>> /\ pending = {}

\* compute_wer has not been called
NoRun == run = [pc |-> "idle", dataset |-> <<>>, i |-> 0, made |-> <<>>,
                result |-> Zero, runs |-> 0]

\* no thread shares the accumulator
NoThreads == threads = <<>> /\ lock = [used |-> FALSE, holder |-> 0]

Init == Fresh /\ Idle /\ NoFold /\ NoRun /\ NoThreads

UpdateCall(observed) ==
  /\ call.args = <<>>
  /\ \E o \in Outputs, t \in Targets :
       LET r == update(Self, o, t)
       IN  /\ r.self._sum_score <= MaxSum
           /\ r.self._sum_words <= MaxSum
           /\ _sum_score' = r.self._sum_score
           /\ _sum_words' = r.self._sum_words
           /\ _cur_score' = r.self._cur_score
           /\ call' = [op |-> "update", err |-> r.err,
                       args |-> IF observed THEN <<o, t>> ELSE <<>>]
  /\ UNCHANGED <<decVars, edVars, foldVars, run, concVars>>

Update == UpdateCall(FALSE)

ObservedUpdate == UpdateCall(TRUE)

Reset ==
  /\ call.args = <<>>
  /\ _sum_score' = reset(Self)._sum_score
  /\ _sum_words' = reset(Self)._sum_words
  /\ _cur_score' = reset(Self)._cur_score
  /\ call' = [op |-> "reset", err |-> "none", args |-> <<>>]
  /\ UNCHANGED <<decVars, edVars, foldVars, run, concVars>>

Next == Update \/ Reset

Spec == Init /\ [][Next]_vars

CallNext == Update \/ Reset \/ ObservedUpdate

CallSpec == Init /\ [][CallNext]_vars

(***************************************************************************)
(* decode_logits applied to one input.                                     *)
(***************************************************************************)
\* argmax indices given to the decoder: <pad>, |, e, t
DecodeIds == {0, 4, 5, 6}

DecodeInputs ==
  {Logits2D(ids) : ids \in SeqsUpTo(DecodeIds, MaxT)}
    \cup {Logits3D(ids) : ids \in SeqsUpTo(DecodeIds, MaxT)}

DecodeInit ==
  /\ Fresh
  /\ logits \in DecodeInputs /\ decoded = [err |-> "pending", res |-> <<>>]
  /\ source = <<>> /\ target = <<>> /\ distance = -1
  /\ NoFold /\ NoRun /\ NoThreads

Decode ==
  /\ decoded.err = "pending"
  /\ decoded' = decode_logits(logits)
  /\ UNCHANGED <<accVars, logits, edVars, foldVars, run, concVars>>

DecodeSpec == DecodeInit /\ [][Decode]_vars

(***************************************************************************)
(* _editdistance_eval applied to one pair of word sequences.               *)
(***************************************************************************)
\* the words of the sequences: "e" and "t"
TokenSet == {<<"e">>, <<"t">>}

EditInit ==
  /\ Fresh
  /\ logits = Logits2D(<<>>) /\ decoded = [err |-> "pending", res |-> <<>>]
  /\ source \in SeqsUpTo(TokenSet, MaxLen)
  /\ target \in SeqsUpTo(TokenSet, MaxLen)
  /\ distance = -1
  /\ NoFold /\ NoRun /\ NoThreads

EditDistance ==
  /\ distance = -1
  /\ distance' = _editdistance_eval(source, target)
  /\ UNCHANGED <<accVars, decVars, source, target, foldVars, run, concVars>>

EditSpec == EditInit /\ [][EditDistance]_vars

(***************************************************************************)
(* A collection of samples applied to a fresh accumulator by update calls, *)
(* one call after the other, in any order and any grouping into batches.   *)
(* A call that raises leaves update before line 541, so the accumulator is *)
(* as it was; the caller goes on with the samples that remain.             *)
(***************************************************************************)
\* (model output, transcript): "e" against "E T", "e" against "E",
\* "" against "E", and a single timestep against "E"
SamplePairs ==
  { [output |-> Logits2D(<<0, 5, 5>>), target |-> <<"E", " ", "T">>],
    [output |-> Logits2D(<<0, 5, 5>>), target |-> <<"E">>],
    [output |-> Logits2D(<<0, 0>>),    target |-> <<"E">>],
    [output |-> Logits2D(<<5>>),       target |-> <<"E">>] }

\* the orders in which the samples of a batch can be listed
Orders(B) ==
  {q \in [1..Cardinality(B) -> B] :
     \A i, j \in 1..Cardinality(B) : i # j => q[i] # q[j]}

FoldInit ==
  /\ Fresh /\ Idle
  /\ samples \in SeqsUpTo(SamplePairs, MaxSamples)
  /\ pending = 1..Len(samples)
  /\ NoRun /\ NoThreads

FoldUpdate ==
  /\ \E B \in (SUBSET pending) \ {{}} : \E q \in Orders(B) :
       LET r == update(Self, [k \in 1..Len(q) |-> samples[q[k]].output],
                             [k \in 1..Len(q) |-> samples[q[k]].target])
       IN  /\ _sum_score' = r.self._sum_score
           /\ _sum_words' = r.self._sum_words
           /\ _cur_score' = r.self._cur_score
           /\ call' = [op |-> "update", err |-> r.err, args |-> <<>>]
           /\ pending' = pending \ B
  /\ UNCHANGED <<decVars, edVars, samples, run, concVars>>

FoldSpec == FoldInit /\ [][FoldUpdate]_vars

(***************************************************************************)
(* compute_wer, lines 621-629, as a process: run.pc is its position,       *)
(* run.i the sample the loop of line 623 is at, run.made the uses it has   *)
(* made of its MetricWER, run.result what it returned.  An exception of    *)
(* update leaves compute_wer (pc "raised").  A sample of the dataset is a  *)
(* transcript and the output the model gives for its audio.                *)
(***************************************************************************)
\* lines 606-618: the output for one sample has a leading dimension of 1
infer_fn(sample) == Logits3D(sample.output.ids)

\* the rows "for i in output" of line 538 goes through
Rows(l) == [k \in 1..l.dims[1] |-> [dims |-> Tail(l.dims), ids |-> l.ids]]

Use(op, sample, targets) == [op |-> op, sample |-> sample, targets |-> targets]

\* line 622
ComputeStart ==
  /\ run.pc \in {"idle", "done", "raised"}
  /\ run.runs < MaxRuns
  /\ \E ds \in SeqsUpTo(SamplePairs, MaxSamples) :
       run' = [pc |-> "loop", dataset |-> ds, i |-> 1,
               made |-> <<Use("MetricWER", 0, 0)>>,
               result |-> Zero, runs |-> run.runs + 1]
  /\ _sum_score' = NewMetric._sum_score
  /\ _sum_words' = NewMetric._sum_words
  /\ _cur_score' = NewMetric._cur_score
  /\ call' = [op |-> "init", err |-> "none", args |-> <<>>]
  /\ UNCHANGED <<decVars, edVars, foldVars, concVars>>

\* lines 623-627, one iteration
ComputeUpdate ==
  /\ run.pc = "loop" /\ run.i <= Len(run.dataset)
  /\ LET sample == run.dataset[run.i]
         tgt    == <<sample.target>>
         r      == update(Self, Rows(infer_fn(sample)), tgt)
     IN  /\ _sum_score' = r.self._sum_score
         /\ _sum_words' = r.self._sum_words
         /\ _cur_score' = r.self._cur_score
         /\ call' = [op |-> "update", err |-> r.err, args |-> <<>>]
         /\ run' = [run EXCEPT !.pc = IF r.err = "none" THEN "loop" ELSE "raised",
                               !.i = IF r.err = "none" THEN run.i + 1 ELSE run.i,
                               !.made = Append(run.made, Use("update", run.i, Len(tgt)))]
  /\ UNCHANGED <<decVars, edVars, foldVars, concVars>>

\* line 629
ComputeReturn ==
  /\ run.pc = "loop" /\ run.i > Len(run.dataset)
  /\ run' = [run EXCEPT !.pc = "done", !.result = avg_value(Self),
                        !.made = Append(run.made, Use("avg_value", 0, 0))]
  /\ UNCHANGED <<accVars, decVars, edVars, foldVars, concVars>>

ComputeNext == ComputeStart \/ ComputeUpdate \/ ComputeReturn

ComputeSpec == Init /\ [][ComputeNext]_vars

(***************************************************************************)
(* Two threads, each calling update with one pair on the same accumulator. *)
(* MetricWER takes no lock.  The statements of lines 564 and 565 read the  *)
(* attribute, add, and write the attribute: three steps between which the  *)
(* interpreter can switch threads, so the read and the write are separate  *)
(* actions.  lock.used says whether the callers wrap each update call in a *)
(* lock of their own; lock.holder is the thread inside it (0: none).       *)
(***************************************************************************)
Threads == {1, 2}

\* the value "x += d" writes back, given the value of x it read
iadd_overwrite(loaded, d) == d

\* lines 564-565
iadd(loaded, d) == loaded + d

ConcInit ==
  /\ Fresh /\ Idle /\ NoFold /\ NoRun
  /\ threads \in [Threads -> {[pc |-> "ready", sample |-> smp, cur_score |-> 0,
                                cur_words |-> 0, loaded |-> 0] : smp \in SamplePairs}]
  /\ lock \in {[used |-> u, holder |-> 0] : u \in BOOLEAN}

\* lines 538-540 and 561-562: everything update computes before it touches
\* the accumulator; an exception of decode_logits ends the call
ThreadCall(t) ==
  /\ threads[t].pc = "ready"
  /\ lock.used => lock.holder = 0
  /\ LET dec == decode_logits(threads[t].sample.output)
         tgt == lower(threads[t].sample.target)
     IN  IF dec.err # "none"
         THEN /\ threads' = [threads EXCEPT ![t].pc = "raised"]
              /\ call' = [op |-> "update", err |-> dec.err, args |-> <<>>]
              /\ UNCHANGED lock
         ELSE /\ threads' = [threads EXCEPT
                               ![t].pc = "load_score",
                               ![t].cur_score = _editdistance_eval(split(dec.res), split(tgt)),
                               ![t].cur_words = Len(split(dec.res))]
              /\ lock' = IF lock.used THEN [lock EXCEPT !.holder = t] ELSE lock
              /\ UNCHANGED call
  /\ UNCHANGED <<_sum_score, _sum_words, _cur_score, decVars, edVars, foldVars, run>>

\* line 564, the read
LoadScore(t) ==
  /\ threads[t].pc = "load_score"
  /\ threads' = [threads EXCEPT ![t].pc = "store_score", ![t].loaded = _sum_score]
  /\ UNCHANGED <<accVars, decVars, edVars, foldVars, run, lock>>

\* line 564, the write
StoreScore(t) ==
  /\ threads[t].pc = "store_score"
  /\ _sum_score' = iadd(threads[t].loaded, threads[t].cur_score)
  /\ threads' = [threads EXCEPT ![t].pc = "load_words"]
  /\ UNCHANGED <<_sum_words, _cur_score, call, decVars, edVars, foldVars, run, lock>>

\* line 565, the read
LoadWords(t) ==
  /\ threads[t].pc = "load_words"
  /\ threads' = [threads EXCEPT ![t].pc = "store_words", ![t].loaded = _sum_words]
  /\ UNCHANGED <<accVars, decVars, edVars, foldVars, run, lock>>

\* line 565, the write
StoreWords(t) ==
  /\ threads[t].pc = "store_words"
  /\ _sum_words' = iadd(threads[t].loaded, threads[t].cur_words)
  /\ threads' = [threads EXCEPT ![t].pc = "set_cur"]
  /\ UNCHANGED <<_sum_score, _cur_score, call, decVars, edVars, foldVars, run, lock>>

\* line 566 and the return of update; the caller lets go of its lock
ThreadReturn(t) ==
  /\ threads[t].pc = "set_cur"
  /\ _cur_score' = true_divide(threads[t].cur_score, threads[t].cur_words)
  /\ threads' = [threads EXCEPT ![t].pc = "done"]
  /\ call' = [op |-> "update", err |-> "none", args |-> <<>>]
  /\ lock' = [lock EXCEPT !.holder = 0]
  /\ UNCHANGED <<_sum_score, _sum_words, decVars, edVars, foldVars, run>>

ConcNext ==
  \E t \in Threads :
    \/ ThreadCall(t)
    \/ LoadScore(t)
    \/ StoreScore(t)
    \/ LoadWords(t)
    \/ StoreWords(t)
    \/ ThreadReturn(t)

ConcSpec == ConcInit /\ [][ConcNext]_vars

(***************************************************************************)
(* Reference notions the claims are stated with.                           *)
(***************************************************************************)
\* the sequences one insertion, deletion or substitution away from s
Edits1(s, Tok) ==
  {SubSeq(s, 1, k - 1) \o SubSeq(s, k + 1, Len(s)) : k \in 1..Len(s)}
    \cup {SubSeq(s, 1, k) \o <<x>> \o SubSeq(s, k + 1, Len(s)) : k \in 0..Len(s), x \in Tok}
    \cup {[s EXCEPT ![k] = x] : k \in 1..Len(s), x \in Tok}

\* the least k such that k single-token edits lead from reached to tgt
RECURSIVE MinEdits(_, _, _, _)
MinEdits(reached, tgt, Tok, k) ==
  IF tgt \in reached THEN k
  ELSE MinEdits(UNION {Edits1(s, Tok) : s \in reached}, tgt, Tok, k + 1)

Levenshtein(src, tgt) == MinEdits({src}, tgt, Range(src) \cup Range(tgt), 0)

RECURSIVE SumSeq(_)
SumSeq(q) == IF q = <<>> THEN 0 ELSE Head(q) + SumSeq(Tail(q))

\* the words of a string: the maximal runs of non-space characters, in order
WordStarts(str) == {k \in 1..Len(str) : ~IsSpace(str[k]) /\ (k = 1 \/ IsSpace(str[k - 1]))}

WordCount(str) == Cardinality(WordStarts(str))

NoDoubleSpace(str) == \A k \in 1..(Len(str) - 1) : ~(str[k] = " " /\ str[k + 1] = " ")

\* a / b as a fraction: f has a positive denominator and f = a / b
IsQuotient(f, a, b) == f[2] > 0 /\ f[1] * b = a * f[2]

(***************************************************************************)
(* C1: every pair that update scores adds the word count of the target to  *)
(* _sum_words and the word-level edit distance between the decoded         *)
(* prediction and the target to _sum_score.                                *)
(***************************************************************************)
C1_UpdateAddsTargetWordsAndCost ==
  [][(call'.op = "update" /\ call'.args # <<>> /\ call'.err = "none") =>
       LET o == call'.args[1]
           t == call'.args[2]
       IN  /\ _sum_words' - _sum_words
                = SumSeq([k \in 1..Len(t) |-> WordCount(t[k])])
           /\ _sum_score' - _sum_score
                = SumSeq([k \in 1..Len(t) |->
                     Levenshtein(split(decode_logits(o[k]).res), split(lower(t[k])))])]_vars

(***************************************************************************)
(* C2: after update scores a sample with zero words the current value is 0 *)
(* (no division by zero, nothing undefined stored); otherwise it is the    *)
(* sample's cost divided by its word count.  The sample's cost and word    *)
(* count are taken to be what the call adds to the cumulative counters.    *)
(***************************************************************************)
C2_ZeroWordsValueIsZero ==
  [][(call'.op = "update" /\ call'.args # <<>> /\ call'.err = "none"
        /\ Len(call'.args[1]) = 1) =>
       LET words == _sum_words' - _sum_words
           cost  == _sum_score' - _sum_score
       IN  /\ words = 0 => value(Self)' = Zero
           /\ words # 0 => IsQuotient(value(Self)', cost, words)]_vars

(***************************************************************************)
(* C3: in every reachable state avg_value is cumulative cost / cumulative  *)
(* word count when the word count is non-zero and 0 when it is zero; it is *)
(* never the outcome of a division by zero.                                *)
(***************************************************************************)
C3_AvgValue ==
  LET a == avg_value(Self)
  IN  /\ a[2] > 0
      /\ _sum_words = 0 => a = Zero
      /\ _sum_words # 0 => IsQuotient(a, _sum_score, _sum_words)

\* updates have accumulated cost 1 over 5 words: avg_value is 1/5
C3_Witness ==
  /\ call.op = "update" /\ call.err = "none"
  /\ _sum_score = 1 /\ _sum_words = 5
  /\ avg_value(Self) = <<1, 5>>

(***************************************************************************)
(* C4: update with predictions and targets of different lengths fails with *)
(* the size-mismatch assertion and leaves the three fields unchanged.      *)
(***************************************************************************)
C4_SizeMismatchFails ==
  [][(call'.op = "update" /\ call'.args # <<>>
        /\ Len(call'.args[1]) # Len(call'.args[2])) =>
       /\ call'.err = "AssertionError"
       /\ UNCHANGED <<_sum_score, _sum_words, _cur_score>>]_vars

(***************************************************************************)
(* C5: reset sets _sum_score and _sum_words to zero and leaves _cur_score  *)
(* unchanged, so that afterwards avg_value is 0 and value is what it was.  *)
(***************************************************************************)
C5_ResetFrame ==
  [][call'.op = "reset" =>
       /\ _sum_score' = 0 /\ _sum_words' = 0
       /\ _cur_score' = _cur_score
       /\ avg_value(Self)' = Zero
       /\ value(Self)' = value(Self)]_vars

\* reset has run after updates: the counters are zero, value is still 1/1
C5_Witness ==
  /\ call.op = "reset"
  /\ _sum_score = 0 /\ _sum_words = 0
  /\ value(Self) = <<1, 1>>
  /\ avg_value(Self) = Zero

(***************************************************************************)
(* C6: _editdistance_eval(source, target) is the minimum number of         *)
(* single-token insertions, deletions and substitutions that transform     *)
(* source into target, for all sequences including the empty ones.         *)
(***************************************************************************)
C6_EditDistanceIsLevenshtein ==
  distance # -1 => distance = Levenshtein(source, target)

\* a computed distance that needs a substitution and an insertion
C6_Witness ==
  /\ source = << <<"e">>, <<"t">> >>
  /\ target = << <<"t">>, <<"t">>, <<"e">> >>
  /\ distance = 2

(***************************************************************************)
(* C7: for every argmax sequence decode_logits returns the string got by   *)
(* collapsing runs of equal symbols, then dropping padding, turning each   *)
(* delimiter into a space, concatenating, stripping and lower-casing.      *)
(***************************************************************************)
RECURSIVE C7_Collapse(_, _)
C7_Collapse(ids, k) ==
  IF k > Len(ids) THEN <<>>
  ELSE (IF k = 1 \/ ids[k] # ids[k - 1] THEN <<ids[k]>> ELSE <<>>) \o C7_Collapse(ids, k + 1)

C7_Symbol(id) == IF alphabet[id + 1] = words_delimiter THEN <<" ">> ELSE alphabet[id + 1]

C7_Stripped(str) ==
  LET inner == {k \in 1..Len(str) : ~IsSpace(str[k])}
  IN  IF inner = {} THEN <<>>
      ELSE SubSeq(str, CHOOSE k \in inner : \A j \in inner : k <= j,
                       CHOOSE k \in inner : \A j \in inner : k >= j)

C7_Pipeline(ids) ==
  LET kept == SelectSeq(C7_Collapse(ids, 1), LAMBDA id : alphabet[id + 1] # pad_token)
  IN  lower(C7_Stripped(join_empty([k \in 1..Len(kept) |-> C7_Symbol(kept[k])])))

C7_DecodeIsPipeline ==
  (decoded.err # "pending" /\ logits = Logits2D(logits.ids)) =>
     decoded = [err |-> "none", res |-> C7_Pipeline(logits.ids)]

(***************************************************************************)
(* C8: the string decode_logits returns has no two consecutive spaces.     *)
(***************************************************************************)
C8_NoConsecutiveSpaces ==
  decoded.err = "none" => NoDoubleSpace(decoded.res)

(***************************************************************************)
(* C9: decode_logits returns a string, without raising, for every          *)
(* (timesteps x alphabet size) matrix, a single timestep included.         *)
(***************************************************************************)
C9_DecodeTotal ==
  (decoded.err # "pending" /\ logits = Logits2D(logits.ids)) => decoded.err = "none"

(***************************************************************************)
(* C10: _sum_words is never negative, no update call (of any batch size,   *)
(* failed or not) lowers it, and only reset lowers it.                     *)
(***************************************************************************)
C10_WordCountMonotonic ==
  /\ [](_sum_words >= 0)
  /\ [][/\ call'.op = "update" => _sum_words' >= _sum_words
        /\ _sum_words' < _sum_words => call'.op = "reset"]_vars

\* updates have raised the count and none of them failed last
C10_Witness ==
  /\ call.op = "update" /\ call.err = "none"
  /\ _sum_words >= 3

(***************************************************************************)
(* C12: _editdistance_eval is symmetric: the distance computed from source *)
(* to target is the one the code computes from target to source.           *)
(***************************************************************************)
C12_EditDistanceSymmetric ==
  distance # -1 => distance = _editdistance_eval(target, source)

\* a computed distance between sequences of different lengths
C12_Witness ==
  /\ source = << <<"e">> >>
  /\ target = << <<"t">>, <<"e">>, <<"t">> >>
  /\ distance = 2

(***************************************************************************)
(* C16: the state reached by update does not depend on the letter case of  *)
(* the targets: when the observed update completes, an update from the    *)
(* same state with any re-casing of its targets completes too, with the    *)
(* same cumulative cost, cumulative word count and current value.          *)
(***************************************************************************)
\* the characters that differ from c at most in case
UpperOf == [c \in Range(LowerCase) |-> CHOOSE u \in Range(UpperCase) : LowerOf[u] = c]

SameLetter(c) ==
  LET low == lower_char(c)
  IN  {c, low} \cup (IF low \in DOMAIN UpperOf THEN {UpperOf[low]} ELSE {})

RECURSIVE CaseVariants(_)
CaseVariants(str) ==
  IF str = <<>> THEN {<<>>}
  ELSE {<<c>> \o rest : c \in SameLetter(Head(str)), rest \in CaseVariants(Tail(str))}

RECURSIVE BatchCaseVariants(_)
BatchCaseVariants(tgt) ==
  IF tgt = <<>> THEN {<<>>}
  ELSE {<<v>> \o rest : v \in CaseVariants(Head(tgt)), rest \in BatchCaseVariants(Tail(tgt))}

C16_TargetCaseIndependent ==
  [][(call'.op = "update" /\ call'.args # <<>> /\ call'.err = "none") =>
       \A v \in BatchCaseVariants(call'.args[2]) :
          update(Self, call'.args[1], v) = [self |-> Self', err |-> call'.err]]_vars

\* the decoded "e" scored against the upper-case target "E" at no cost
C16_Witness ==
  /\ call.op = "update" /\ call.err = "none"
  /\ call.args = << <<Logits2D(<<0, 5, 5>>)>>, << <<"E">> >> >>
  /\ _sum_score = 0 /\ _sum_words = 1 /\ _cur_score = Zero

(***************************************************************************)
(* C13: value is the score of the last sample processed.  After an update  *)
(* with a batch of k >= 1 pairs it is the ratio of the k-th pair's cost to *)
(* the k-th target's word count (0 if that target has no words); after an  *)
(* update with an empty batch and after reset it is unchanged; on a fresh  *)
(* accumulator it is 0.                                                    *)
(***************************************************************************)
C13_ValueIsLastPairRatio ==
  /\ [](call.op = "init" => value(Self) = Zero)
  /\ [][/\ (call'.op = "update" /\ call'.args # <<>> /\ call'.err = "none") =>
             LET o == call'.args[1]
                 t == call'.args[2]
                 k == Len(t)
             IN  IF k = 0 THEN value(Self)' = value(Self)
                 ELSE LET cost  == Levenshtein(split(decode_logits(o[k]).res),
                                               split(lower(t[k])))
                          words == WordCount(t[k])
                      IN  IF words = 0 THEN value(Self)' = Zero
                          ELSE IsQuotient(value(Self)', cost, words)
          /\ call'.op = "reset" => value(Self)' = value(Self)]_vars

(***************************************************************************)
(* C11: once every sample of a collection has been applied to a fresh      *)
(* accumulator, the cumulative cost, the cumulative word count and         *)
(* avg_value are those of applying the samples one per call in the order   *)
(* of the collection, whatever the order and the batches of the calls.     *)
(***************************************************************************)
RECURSIVE OneByOne(_, _, _)
OneByOne(self, smp, i) ==
  IF i > Len(smp) THEN self
  ELSE OneByOne(update(self, <<smp[i].output>>, <<smp[i].target>>).self, smp, i + 1)

C11_OrderAndGroupingIndependent ==
  pending = {} =>
    LET ref == OneByOne(NewMetric, samples, 1)
    IN  /\ _sum_score = ref._sum_score
        /\ _sum_words = ref._sum_words
        /\ avg_value(Self) = avg_value(ref)

(***************************************************************************)
(* C14: a run of compute_wer makes one MetricWER, then one update per      *)
(* sample in dataset order, each with a one-element target list, then      *)
(* reads avg_value, and never calls reset; what it returns is the sum of   *)
(* the samples' costs over the sum of the samples' transcript word counts  *)
(* (0 for an empty dataset), whatever runs came before.                    *)
(***************************************************************************)
C14_Lifecycle(ds) ==
  <<Use("MetricWER", 0, 0)>> \o [k \in 1..Len(ds) |-> Use("update", k, 1)]
    \o <<Use("avg_value", 0, 0)>>

C14_Cost(sample) ==
  Levenshtein(split(decode_logits(sample.output).res), split(lower(sample.target)))

C14_ComputeWer ==
  /\ run.pc # "idle" =>
       run.made = SubSeq(C14_Lifecycle(run.dataset), 1, Len(run.made))
  /\ run.pc = "done" =>
       LET ds    == run.dataset
           cost  == SumSeq([k \in 1..Len(ds) |-> C14_Cost(ds[k])])
           words == SumSeq([k \in 1..Len(ds) |-> WordCount(ds[k].target)])
       IN  /\ run.made = C14_Lifecycle(ds)
           /\ IF words = 0 THEN run.result = Zero
              ELSE IsQuotient(run.result, cost, words)

(***************************************************************************)
(* C15: MetricWER does not synchronize.  When the callers serialize their  *)
(* update calls with a lock, then once both calls have ended the           *)
(* cumulative cost and word count are the sums of what each call adds on   *)
(* its own; without the lock a state is reachable (C15_Witness) where both *)
(* calls have ended and a sum is smaller than that: a lost update.         *)
(***************************************************************************)
\* what the call of thread t adds to a fresh accumulator on its own
C15_Contribution(t) ==
  update(NewMetric, <<threads[t].sample.output>>, <<threads[t].sample.target>>).self

C15_BothEnded == \A t \in Threads : threads[t].pc \in {"done", "raised"}

C15_LostUpdate ==
  /\ threads # <<>>
  /\ C15_BothEnded
  /\ \/ _sum_score < C15_Contribution(1)._sum_score + C15_Contribution(2)._sum_score
     \/ _sum_words < C15_Contribution(1)._sum_words + C15_Contribution(2)._sum_words

C15_NoLostUpdateUnderLock ==
  (threads # <<>> /\ lock.used) =>
    /\ ~C15_LostUpdate
    /\ C15_BothEnded =>
         /\ _sum_score = C15_Contribution(1)._sum_score + C15_Contribution(2)._sum_score
         /\ _sum_words = C15_Contribution(1)._sum_words + C15_Contribution(2)._sum_words

\* without a lock: both calls have returned and an addition is lost
C15_Witness ==
  /\ ~lock.used
  /\ C15_LostUpdate
  /\ \A t \in Threads : threads[t].pc = "done"

====
